---- MODULE Spec2Model ----
(***************************************************************************)
(* Model of docs/samples/v1beta1/transformer/torchserve_image_transformer/ *)
(* image_transformer/image_transformer.py: the module-level function       *)
(* image_transform and the class ImageTransformer (preprocess,             *)
(* postprocess, explain).                                                  *)
(*                                                                         *)
(* Python values are encoded as records with one field naming the type:    *)
(*   [str |-> <<chars>>]   a str                                           *)
(*   [num |-> n]           a float, in fixed point (value * 10000)         *)
(*   [list |-> <<...>>]    a list                                          *)
(*   [dict |-> f]          a dict, f a function from key strings           *)
(* An instance is a dict object on the heap: heap[i] is its key -> value   *)
(* function, and i is the reference held by a request's 'instances' list.  *)
(***************************************************************************)
EXTENDS Integers, Sequences, FiniteSets, TLC

VARIABLES
    heap,       \* instance objects: reference -> (key -> value)
    requests,   \* request r -> the list of instance references under 'instances'
    config,     \* the attributes __init__ sets on the transformer
    ctor,       \* the arguments the constructor was called with
    tcall,      \* a direct call of image_transform(instance)
    pre,        \* per request: the preprocess call made on it
    post,       \* the last postprocess call
    call,       \* per request: the explain call made on it, where its coroutine is
                \* and how it ended
    net,        \* outbound HTTP requests in flight -> time elapsed since sent
    fut,        \* fetch id -> what the awaited future resolved to
    sent        \* every outbound HTTP request issued so far, in order

vars == <<heap, requests, config, ctor, tcall, pre, post, call, net, fut, sent>>

----------------------------------------------------------------------------
(* Bounds of the model *)

NumRequests == 2
MaxInstances == 2
MaxHeap == 3
MaxDataLen == 5
TickSize == 50

----------------------------------------------------------------------------
(* Python values *)

None == [none |-> TRUE]
PyStr(cs) == [str |-> cs]
PyNum(n) == [num |-> n]
PyList(s) == [list |-> s]
PyDict(f) == [dict |-> f]
IsStr(v) == "str" \in DOMAIN v
IsList(v) == "list" \in DOMAIN v

----------------------------------------------------------------------------
(* base64.b64decode(s), called at line 46 with validate left at its default *)
(* (False): binascii.a2b_base64 in non-strict mode.                         *)

\* The characters the model draws 'data' strings from: three characters of the
\* base64 alphabet, the pad character and one character outside the alphabet.
Chars == {"A", "Q", "U", "=", "!"}

\* table_a2b_base64: the 6-bit value of an alphabet character, 64 and above
\* for a character outside the alphabet.
B64Index(ch) ==
    CASE ch = "A" -> 0
      [] ch = "Q" -> 16
      [] ch = "U" -> 20
      [] OTHER -> 64

RECURSIVE a2b_base64(_, _, _, _, _, _)
a2b_base64(s, i, quad_pos, leftchar, pads, out) ==
    IF i > Len(s)
    THEN IF quad_pos # 0
         THEN [raised |-> "binascii.Error", bytes |-> <<>>]
         ELSE [raised |-> "none", bytes |-> out]
    ELSE IF s[i] = "="
    THEN IF quad_pos >= 2 /\ quad_pos + pads + 1 >= 4
         THEN [raised |-> "none", bytes |-> out]    \* padding complete: stop
         ELSE a2b_base64(s, i + 1, quad_pos, leftchar,
                         IF quad_pos >= 2 THEN pads + 1 ELSE pads, out)
    ELSE IF B64Index(s[i]) >= 64
    THEN a2b_base64(s, i + 1, quad_pos, leftchar, pads, out)   \* discarded
    ELSE LET c == B64Index(s[i]) IN
         CASE quad_pos = 0 -> a2b_base64(s, i + 1, 1, c, 0, out)
           [] quad_pos = 1 -> a2b_base64(s, i + 1, 2, c % 16, 0,
                                  Append(out, (leftchar * 4 + (c \div 16)) % 256))
           [] quad_pos = 2 -> a2b_base64(s, i + 1, 3, c % 4, 0,
                                  Append(out, (leftchar * 16 + (c \div 4)) % 256))
           [] quad_pos = 3 -> a2b_base64(s, i + 1, 0, 0, 0,
                                  Append(out, (leftchar * 64 + c) % 256))

\* b64decode of a Python value: a str is decoded, anything else (the list that
\* image_transform leaves behind) is not bytes-like.
b64decode(v) ==
    IF IsStr(v)
    THEN a2b_base64(v.str, 1, 0, 0, 0, <<>>)
    ELSE [raised |-> "TypeError", bytes |-> <<>>]

----------------------------------------------------------------------------
(* Image.open(io.BytesIO(byte_array)), line 47, and image_processing,       *)
(* lines 29-32.  An image file is a magic byte followed by the pixels of a *)
(* single-channel image of one row; anything else is not identified.       *)

ImageMagic == 80

ImageOpen(bytes) ==
    IF Len(bytes) >= 2 /\ bytes[1] = ImageMagic
    THEN [raised |-> "none", pixels |-> Tail(bytes)]
    ELSE [raised |-> "UnidentifiedImageError", pixels |-> <<>>]

\* transforms.ToTensor(): a byte becomes a float in [0, 1] (fixed point, * 10000)
ToTensor(p) == (p * 10000) \div 255

\* transforms.Normalize((0.1307,), (0.3081,)): (x - mean) / std
Normalize(x) == ((x - 1307) * 10000) \div 3081

\* image_processing(image).tolist(): a [channel][row][column] nested list
image_processing(pixels) ==
    PyList(<< PyList(<< PyList([k \in 1..Len(pixels) |->
                                   PyNum(Normalize(ToTensor(pixels[k])))]) >>) >>)

----------------------------------------------------------------------------
(* image_transform(instance), lines 35-50.  h is the heap, i the reference  *)
(* of the instance.  The result is the heap afterwards, the exception that  *)
(* left the function ("none" if it returned) and the reference returned.    *)

\* an image_transform that builds the instance anew: {'data': ...}
image_transform_rebuild(h, i) ==
    LET dec == b64decode(h[i]["data"])
        img == ImageOpen(dec.bytes)
    IN  IF dec.raised # "none"
        THEN [heap |-> h, raised |-> dec.raised, ret |-> 0]
        ELSE IF img.raised # "none"
        THEN [heap |-> h, raised |-> img.raised, ret |-> 0]
        ELSE [heap |-> [h EXCEPT ![i] = [data |-> image_processing(img.pixels)]],
              raised |-> "none", ret |-> i]

\* an image_transform that catches the decoder's exceptions and hands the
\* instance back as it is
image_transform_swallow(h, i) ==
    LET dec == b64decode(h[i]["data"])
        img == ImageOpen(dec.bytes)
    IN  IF dec.raised # "none" \/ img.raised # "none"
        THEN [heap |-> h, raised |-> "none", ret |-> i]
        ELSE [heap |-> [h EXCEPT ![i]["data"] = image_processing(img.pixels)],
              raised |-> "none", ret |-> i]

image_transform(h, i) ==
    LET dec == b64decode(h[i]["data"])
        img == ImageOpen(dec.bytes)
    IN  IF dec.raised # "none"
        THEN [heap |-> h, raised |-> dec.raised, ret |-> 0]
        ELSE IF img.raised # "none"
        THEN [heap |-> h, raised |-> img.raised, ret |-> 0]
        ELSE [heap |-> [h EXCEPT ![i]["data"] = image_processing(img.pixels)],
              raised |-> "none", ret |-> i]

----------------------------------------------------------------------------
(* ImageTransformer.preprocess, line 87: the list comprehension calls       *)
(* image_transform on each instance in turn and stops at the first one that *)
(* raises.                                                                  *)

RECURSIVE comprehension(_, _, _, _)
comprehension(insts, k, h, out) ==
    IF k > Len(insts)
    THEN [heap |-> h, raised |-> "none", ret |-> out]
    ELSE LET t == image_transform(h, insts[k]) IN
         IF t.raised # "none"
         THEN [heap |-> t.heap, raised |-> t.raised, ret |-> <<>>]
         ELSE comprehension(insts, k + 1, t.heap, Append(out, t.ret))

Reverse(q) == [k \in 1..Len(q) |-> q[Len(q) + 1 - k]]

\* a preprocess that walks the instances from the last to the first
preprocess_reversed(h, insts) ==
    LET c == comprehension(Reverse(insts), 1, h, <<>>) IN
    [heap |-> c.heap, raised |-> c.raised,
     ret |-> IF c.raised = "none" THEN [instances |-> c.ret] ELSE None]

\* the value returned is a new mapping {'instances': [...]}, None if an
\* exception left the comprehension
preprocess(h, insts) ==
    LET c == comprehension(insts, 1, h, <<>>) IN
    [heap |-> c.heap, raised |-> c.raised,
     ret |-> IF c.raised = "none" THEN [instances |-> c.ret] ELSE None]

\* a postprocess that returns a new mapping, dict(inputs), not its argument
postprocess_copy(h, inputs) ==
    [heap |-> h, raised |-> "none", ret |-> inputs + NumRequests]

\* ImageTransformer.postprocess, line 100.  inputs is the reference of the
\* mapping passed in; the result has the shape of image_transform's.
postprocess(h, inputs) == [heap |-> h, raised |-> "none", ret |-> inputs]

----------------------------------------------------------------------------
(* json.dumps and json.loads, lines 123 and 129.  JSON text is a sequence   *)
(* of tokens: punctuation, object keys, and the scalars (a str or a num     *)
(* value stands for its own literal).                                       *)

LBrace == [p |-> "{"]
RBrace == [p |-> "}"]
LBracket == [p |-> "["]
RBracket == [p |-> "]"]
Colon == [p |-> ":"]
Comma == [p |-> ","]
Key(k) == [key |-> k]
IsScalar(v) == "str" \in DOMAIN v \/ "num" \in DOMAIN v

\* the order in which a dict's keys are written
KeyOrder == <<"instances", "data", "label", "explanations">>

RECURSIVE dumps(_), dumps_items(_, _), dumps_members(_, _, _)
dumps(v) ==
    IF IsScalar(v) THEN <<v>>
    ELSE IF IsList(v) THEN <<LBracket>> \o dumps_items(v.list, 1) \o <<RBracket>>
    ELSE <<LBrace>> \o dumps_members(v.dict, 1, TRUE) \o <<RBrace>>

dumps_items(q, k) ==
    IF k > Len(q) THEN <<>>
    ELSE (IF k > 1 THEN <<Comma>> ELSE <<>>) \o dumps(q[k]) \o dumps_items(q, k + 1)

dumps_members(d, k, first) ==
    IF k > Len(KeyOrder) THEN <<>>
    ELSE IF KeyOrder[k] \notin DOMAIN d THEN dumps_members(d, k + 1, first)
    ELSE (IF first THEN <<>> ELSE <<Comma>>)
         \o <<Key(KeyOrder[k]), Colon>> \o dumps(d[KeyOrder[k]])
         \o dumps_members(d, k + 1, FALSE)

ParseFail == [ok |-> FALSE, val |-> None, next |-> 0]

RECURSIVE parse_value(_, _), parse_items(_, _, _), parse_members(_, _, _)
parse_value(t, i) ==
    IF i > Len(t) THEN ParseFail
    ELSE IF IsScalar(t[i]) THEN [ok |-> TRUE, val |-> t[i], next |-> i + 1]
    ELSE IF t[i] = LBracket
    THEN IF i < Len(t) /\ t[i + 1] = RBracket
         THEN [ok |-> TRUE, val |-> PyList(<<>>), next |-> i + 2]
         ELSE parse_items(t, i + 1, <<>>)
    ELSE IF t[i] = LBrace
    THEN IF i < Len(t) /\ t[i + 1] = RBrace
         THEN [ok |-> TRUE, val |-> PyDict(<<>>), next |-> i + 2]
         ELSE parse_members(t, i + 1, <<>>)
    ELSE ParseFail

parse_items(t, i, acc) ==
    LET v == parse_value(t, i) IN
    IF ~v.ok \/ v.next > Len(t) THEN ParseFail
    ELSE IF t[v.next] = Comma THEN parse_items(t, v.next + 1, Append(acc, v.val))
    ELSE IF t[v.next] = RBracket
    THEN [ok |-> TRUE, val |-> PyList(Append(acc, v.val)), next |-> v.next + 1]
    ELSE ParseFail

parse_members(t, i, acc) ==
    IF i + 1 > Len(t) \/ "key" \notin DOMAIN t[i] \/ t[i + 1] # Colon THEN ParseFail
    ELSE LET v == parse_value(t, i + 2)
             d == (t[i].key :> v.val) @@ acc
         IN  IF ~v.ok \/ v.next > Len(t) THEN ParseFail
             ELSE IF t[v.next] = Comma THEN parse_members(t, v.next + 1, d)
             ELSE IF t[v.next] = RBrace
             THEN [ok |-> TRUE, val |-> PyDict(d), next |-> v.next + 1]
             ELSE ParseFail

loads(t) ==
    LET v == parse_value(t, 1) IN
    IF v.ok /\ v.next = Len(t) + 1
    THEN [raised |-> "none", val |-> v.val]
    ELSE [raised |-> "JSONDecodeError", val |-> None]

----------------------------------------------------------------------------
(* ImageTransformer.explain, lines 102-129 *)

PyText(t) == [text |-> t]

NoError == [type |-> "none", code |-> 0, body |-> <<>>]
Error(type, code, body) == [type |-> type, code |-> code, body |-> body]

\* "http://{1}/v1/models/{0}:explain": the arguments the wrong way round
EXPLAINER_URL_FORMAT_swapped(host, name) ==
    <<"http://", name, "/v1/models/", host, ":explain">>

\* EXPLAINER_URL_FORMAT.format(host, name), line 27
EXPLAINER_URL_FORMAT(host, name) ==
    <<"http://", host, "/v1/models/", name, ":explain">>

\* an explain without the check of line 116
explain_begin_unchecked(cfg, request) ==
    [raised |-> NoError,
     fetch |-> [url |-> EXPLAINER_URL_FORMAT(cfg.explainer_host, cfg.name),
                method |-> "POST",
                request_timeout |-> cfg.timeout,
                body |-> dumps(request)]]

\* lines 116-124, up to the await: the exception raised, or the arguments of
\* the fetch.  request is the value of the request mapping.
explain_begin(cfg, request) ==
    IF cfg.explainer_host = None
    THEN [raised |-> Error("NotImplementedError", 0, <<>>), fetch |-> None]
    ELSE [raised |-> NoError,
          fetch |-> [url |-> EXPLAINER_URL_FORMAT(cfg.explainer_host, cfg.name),
                     method |-> "POST",
                     request_timeout |-> cfg.timeout,
                     body |-> dumps(request)]]

\* an explain that takes every 2xx status for a success
explain_resume_any2xx(res) ==
    IF res.state = "error"
    THEN [raised |-> res.error, ret |-> None]
    ELSE IF res.code \div 100 # 2
    THEN [raised |-> Error("HTTPError", res.code, res.body), ret |-> None]
    ELSE LET j == loads(res.body) IN
         IF j.raised # "none"
         THEN [raised |-> Error(j.raised, 0, <<>>), ret |-> None]
         ELSE [raised |-> NoError, ret |-> j.val]

\* lines 119-129, from the await on: res is what the future of the fetch
\* resolved to, an exception (raised out of the await) or a response.
explain_resume(res) ==
    IF res.state = "error"
    THEN [raised |-> res.error, ret |-> None]
    ELSE IF res.code # 200
    THEN [raised |-> Error("HTTPError", res.code, res.body), ret |-> None]
    ELSE LET j == loads(res.body) IN
         IF j.raised # "none"
         THEN [raised |-> Error(j.raised, 0, <<>>), ret |-> None]
         ELSE [raised |-> NoError, ret |-> j.val]

----------------------------------------------------------------------------
(* Inputs *)

Strings(n) == UNION {[1..k -> Chars] : k \in 0..n}

\* "UAA=" and "UAQ=" encode the bytes 80,0 and 80,4: one-pixel images.
ValidData == <<"U", "A", "A", "=">>
ValidData2 == <<"U", "A", "Q", "=">>
\* the same image with a character outside the alphabet in front
JunkData == <<"!", "U", "A", "A", "=">>
\* three data characters and no padding
UnpaddedData == <<"U", "A", "A">>
\* well-formed base64 of the bytes 0,0: not an image
NotImageData == <<"A", "A", "A", "=">>

DataPool == {ValidData, ValidData2, JunkData, UnpaddedData, NotImageData}

Instance(data, label) ==
    IF label = None THEN [data |-> data] ELSE [data |-> data, label |-> label]

Labels == {None, PyStr(<<"7">>)}

InstId(r, j) == (r - 1) * MaxInstances + j

IdleCall == [status |-> "idle", arg |-> 0, ret |-> 0, raised |-> "none",
             before |-> <<>>]
IdlePre == [IdleCall EXCEPT !.ret = None]
IdlePost == [status |-> "idle", arg |-> 0, ret |-> 0, raised |-> "none"]

Requests == 1..NumRequests

IdleExplain == [status |-> "idle", arg |-> 0, fetch |-> 0, ret |-> None,
                raised |-> NoError]

\* ImageTransformer.__init__, lines 61-75, called with a model name and one of
\* the predictor hosts of the set hosts
InitRest(hosts) ==
    /\ ctor \in [name : {PyText("mnist")}, predictor_host : hosts]
    /\ config = [name |-> ctor.name, predictor_host |-> ctor.predictor_host,
                 explainer_host |-> ctor.predictor_host, timeout |-> 100]
    /\ tcall = IdleCall
    /\ pre = [r \in Requests |-> IdlePre]
    /\ post = IdlePost
    /\ call = [r \in Requests |-> IdleExplain]
    /\ net = <<>>
    /\ fut = <<>>
    /\ sent = <<>>

PredictorHost == PyText("predictor:8080")

----------------------------------------------------------------------------
(* SpecTransform: image_transform called directly on one instance drawn from *)
(* every string of at most MaxDataLen characters.                           *)

InitTransform ==
    /\ \E s \in Strings(MaxDataLen), l \in Labels :
          heap = (1 :> Instance(PyStr(s), l))
    /\ requests = [r \in Requests |-> <<>>]
    /\ InitRest({PredictorHost})

TransformCall ==
    /\ LET t == image_transform(heap, 1) IN
       /\ heap' = t.heap
       /\ tcall' = [status |-> IF t.raised = "none" THEN "returned" ELSE "raised",
                    arg |-> 1, ret |-> t.ret, raised |-> t.raised, before |-> heap]
    /\ UNCHANGED <<requests, config, ctor, pre, post, call, net, fut, sent>>

NextTransform == TransformCall

SpecTransform == InitTransform /\ [][NextTransform]_vars

----------------------------------------------------------------------------
(* SpecPre: preprocess called, any number of times, on requests decoded from *)
(* JSON: every instance is an object of its own, at most MaxInstances per  *)
(* request and MaxHeap in all, its 'data' drawn from DataPool.  The first  *)
(* instance of a request also carries a 'label'.                           *)

Refs(reqs, r) == {reqs[r][j] : j \in 1..Len(reqs[r])}

AllRefs(reqs) == UNION {Refs(reqs, r) : r \in Requests}

RequestShapes ==
    {reqs \in [Requests -> UNION {[1..k -> {0}] : k \in 0..MaxInstances}] :
        Cardinality({<<r, j>> \in Requests \X (1..MaxInstances) :
                        j <= Len(reqs[r])}) <= MaxHeap}

InitHeap(pool) ==
    /\ \E shape \in RequestShapes :
          requests = [r \in Requests |->
                        [j \in 1..Len(shape[r]) |-> InstId(r, j)]]
    /\ \E datas \in [AllRefs(requests) -> pool] :
          heap = [i \in AllRefs(requests) |->
                    Instance(PyStr(datas[i]),
                             IF i % MaxInstances = 1 \/ MaxInstances = 1
                             THEN PyStr(<<"7">>) ELSE None)]

InitPre ==
    /\ InitHeap(DataPool)
    /\ InitRest({PredictorHost})

\* the framework calls model.preprocess(request)
Preprocess(r) ==
    /\ LET t == preprocess(heap, requests[r]) IN
       /\ heap' = t.heap
       /\ pre' = [pre EXCEPT ![r] =
                    [status |-> IF t.raised = "none" THEN "returned" ELSE "raised",
                     arg |-> r, ret |-> t.ret, raised |-> t.raised,
                     before |-> heap]]
    /\ UNCHANGED <<requests, config, ctor, tcall, post, call, net, fut, sent>>

\* the framework calls model.postprocess(mapping)
Postprocess(r) ==
    /\ LET t == postprocess(heap, r) IN
       /\ heap' = t.heap
       /\ post' = [status |-> IF t.raised = "none" THEN "returned" ELSE "raised",
                   arg |-> r, ret |-> t.ret, raised |-> t.raised]
    /\ UNCHANGED <<requests, config, ctor, tcall, pre, call, net, fut, sent>>

NextPre == \E r \in Requests : Preprocess(r)

SpecPre == InitPre /\ [][NextPre]_vars

----------------------------------------------------------------------------
(* Explain calls running concurrently on the event loop, each suspended at  *)
(* its await while the upstream answers in any order.  The transformer is   *)
(* built with a predictor host or with None.  net maps each request in      *)
(* flight to the time elapsed since it was sent.                            *)

\* the value of the request mapping r as the heap h holds it
RequestValue(h, r) ==
    PyDict([instances |->
              PyList([j \in 1..Len(requests[r]) |-> PyDict(h[requests[r][j]])])])

BodyExplanations ==
    <<LBrace, Key("explanations"), Colon, LBracket, PyNum(1), Comma, PyNum(2),
      Comma, PyNum(3), RBracket, RBrace>>
BodyServerError == <<PyStr(<<"s", "e", "r", "v", "e", "r", " ", "e", "r", "r", "o", "r">>)>>
BodyTruncated == <<LBrace, Key("explanations"), Colon, LBracket, PyNum(1), Comma>>

\* what the upstream may answer: status, body, and whether the HTTP client
\* raises its own error for the status (it may for a status outside 2xx)
Answer(code, body, raises) == [code |-> code, body |-> body, raises |-> raises]

ResponseCodes == {200, 204, 500}
ResponseBodies == {BodyExplanations, BodyServerError, BodyTruncated}

Answers ==
    {a \in {Answer(c, b, x) : c \in ResponseCodes, b \in ResponseBodies,
                              x \in BOOLEAN} :
        a.raises => a.code \div 100 # 2}

FewAnswers ==
    {Answer(200, BodyExplanations, FALSE), Answer(500, BodyServerError, FALSE)}

HeaderPool == {None, PyDict([accept |-> PyText("application/json")])}

\* what a future holds: its state, the exception or the response's status and
\* body, the request the upstream answered, and for a timeout the time that
\* had elapsed
Pending == [state |-> "pending", error |-> NoError, code |-> 0, body |-> <<>>,
            answers |-> 0, elapsed |-> 0]

\* one single-instance request per r, decoded from JSON: a valid image for an
\* odd r, an unpadded payload for an even r
Init ==
    /\ requests = [r \in Requests |-> <<InstId(r, 1)>>]
    /\ heap = [i \in AllRefs(requests) |->
                 Instance(PyStr(IF ((i - 1) \div MaxInstances) % 2 = 0
                                THEN ValidData ELSE UnpaddedData), None)]
    /\ InitRest({PredictorHost, None})

\* an explain that keeps the future of its fetch on the transformer and
\* awaits the one already there instead of issuing its own request
Explain_coalesce(r, h) ==
    /\ call[r].status = "idle"
    /\ LET b == explain_begin(config, RequestValue(heap, r))
           id == Len(sent) + 1
       IN  IF b.raised # NoError
           THEN /\ call' = [call EXCEPT ![r] =
                              [status |-> "raised", arg |-> r, fetch |-> 0,
                               ret |-> None, raised |-> b.raised]]
                /\ UNCHANGED <<net, fut, sent>>
           ELSE IF DOMAIN net # {}
           THEN /\ call' = [call EXCEPT ![r] =
                              [status |-> "awaiting", arg |-> r,
                               fetch |-> CHOOSE k \in DOMAIN net : TRUE,
                               ret |-> None, raised |-> NoError]]
                /\ UNCHANGED <<net, fut, sent>>
           ELSE /\ call' = [call EXCEPT ![r] =
                              [status |-> "awaiting", arg |-> r, fetch |-> id,
                               ret |-> None, raised |-> NoError]]
                /\ sent' = Append(sent, [args |-> b.fetch, by |-> r,
                                         request |-> RequestValue(heap, r)])
                /\ fut' = Append(fut, Pending)
                /\ net' = (id :> 0) @@ net
    /\ UNCHANGED <<heap, requests, config, ctor, tcall, pre, post>>

\* the framework calls model.explain(request, headers) on request r: the
\* coroutine runs up to its await (lines 116-124)
Explain(r, h) ==
    /\ call[r].status = "idle"
    /\ LET b == explain_begin(config, RequestValue(heap, r))
           id == Len(sent) + 1
       IN  IF b.raised # NoError
           THEN /\ call' = [call EXCEPT ![r] =
                              [status |-> "raised", arg |-> r, fetch |-> 0,
                               ret |-> None, raised |-> b.raised]]
                /\ UNCHANGED <<net, fut, sent>>
           ELSE /\ call' = [call EXCEPT ![r] =
                              [status |-> "awaiting", arg |-> r, fetch |-> id,
                               ret |-> None, raised |-> NoError]]
                /\ sent' = Append(sent, [args |-> b.fetch, by |-> r,
                                         request |-> RequestValue(heap, r)])
                /\ fut' = Append(fut, Pending)
                /\ net' = (id :> 0) @@ net
    /\ UNCHANGED <<heap, requests, config, ctor, tcall, pre, post>>

InFlight == DOMAIN net

Without(f, x) == [y \in DOMAIN f \ {x} |-> f[y]]

\* the upstream answers the request in flight before the request's timeout;
\* the HTTP client resolves the future with the response or raises its own
\* error carrying the response
Respond(id, a) ==
    /\ id \in InFlight
    /\ net[id] < sent[id].args.request_timeout
    /\ fut' = [fut EXCEPT ![id] =
                 [state |-> IF a.raises THEN "error" ELSE "response",
                  error |-> IF a.raises
                            THEN Error("HTTPClientError", a.code, a.body)
                            ELSE NoError,
                  code |-> a.code, body |-> a.body, answers |-> id,
                  elapsed |-> 0]]
    /\ net' = Without(net, id)
    /\ UNCHANGED <<heap, requests, config, ctor, tcall, pre, post, call, sent>>

\* request_timeout elapses with no answer: the future raises the timeout error
TimeOut(id) ==
    /\ id \in InFlight
    /\ net[id] >= sent[id].args.request_timeout
    /\ fut' = [fut EXCEPT ![id] =
                 [state |-> "error", error |-> Error("HTTPTimeoutError", 599, <<>>),
                  code |-> 599, body |-> <<>>, answers |-> 0,
                  elapsed |-> net[id]]]
    /\ net' = Without(net, id)
    /\ UNCHANGED <<heap, requests, config, ctor, tcall, pre, post, call, sent>>

\* an explain that fetches again when the await raises or the status is not 200
Resume_retry(c) ==
    /\ call[c].status = "awaiting"
    /\ fut[call[c].fetch].state # "pending"
    /\ LET e == explain_resume(fut[call[c].fetch])
           id == Len(sent) + 1
       IN  IF e.raised # NoError /\ Len(sent) < 2 * NumRequests
           THEN /\ call' = [call EXCEPT ![c].fetch = id]
                /\ sent' = Append(sent, sent[call[c].fetch])
                /\ fut' = Append(fut, Pending)
                /\ net' = (id :> 0) @@ net
           ELSE /\ call' = [call EXCEPT ![c].status =
                                 IF e.raised = NoError THEN "returned" ELSE "raised",
                                           ![c].ret = e.ret,
                                           ![c].raised = e.raised]
                /\ UNCHANGED <<net, fut, sent>>
    /\ UNCHANGED <<heap, requests, config, ctor, tcall, pre, post>>

\* the event loop resumes the coroutine whose future has resolved: lines
\* 119-129 from the await on
Resume(c) ==
    /\ call[c].status = "awaiting"
    /\ fut[call[c].fetch].state # "pending"
    /\ LET e == explain_resume(fut[call[c].fetch]) IN
       call' = [call EXCEPT ![c].status =
                    IF e.raised = NoError THEN "returned" ELSE "raised",
                              ![c].ret = e.ret,
                              ![c].raised = e.raised]
    /\ UNCHANGED <<heap, requests, config, ctor, tcall, pre, post, net, fut, sent>>

\* time passes for every request in flight whose timeout has not elapsed
Tick ==
    /\ \E id \in InFlight : net[id] < sent[id].args.request_timeout
    /\ net' = [id \in InFlight |->
                 IF net[id] < sent[id].args.request_timeout
                 THEN net[id] + TickSize ELSE net[id]]
    /\ UNCHANGED <<heap, requests, config, ctor, tcall, pre, post, call, fut, sent>>

NextExplain ==
    \/ \E r \in Requests, h \in HeaderPool : Explain(r, h)
    \/ \E id \in InFlight, a \in Answers : Respond(id, a)
    \/ \E id \in InFlight : TimeOut(id)
    \/ \E r \in Requests : Resume(r)
    \/ Tick

SpecExplain == Init /\ [][NextExplain]_vars

\* Spec: explain, preprocess and postprocess calls in any order, each request
\* preprocessed at most once
Next ==
    \/ \E r \in Requests, h \in HeaderPool : Explain(r, h)
    \/ \E id \in InFlight, a \in FewAnswers : Respond(id, a)
    \/ \E r \in Requests : Resume(r)
    \/ \E r \in Requests : pre[r].status = "idle" /\ Preprocess(r)
    \/ \E r \in Requests : Postprocess(r)

Spec == Init /\ [][Next]_vars

----------------------------------------------------------------------------
(* Claims about image_transform, preprocess and postprocess *)

\* the exceptions of the two decoders: base64 (binascii.Error) and PIL
DecodeErrors == {"binascii.Error", "UnidentifiedImageError"}

\* a [channel][row][column] nested list of numbers holding n > 0 numbers
IsNumericArray(v) ==
    /\ IsList(v) /\ Len(v.list) = 1
    /\ IsList(v.list[1]) /\ Len(v.list[1].list) = 1
    /\ IsList(v.list[1].list[1]) /\ Len(v.list[1].list[1].list) > 0
    /\ \A k \in 1..Len(v.list[1].list[1].list) :
          "num" \in DOMAIN v.list[1].list[1].list[k]

\* RFC 4648 base64: whole groups of four alphabet characters, the last group
\* ending in at most two pad characters
WellFormedB64(s) ==
    /\ Len(s) % 4 = 0
    /\ \A k \in 1..Len(s) :
          \/ B64Index(s[k]) < 64
          \/ /\ s[k] = "="
             /\ k >= Len(s) - 1
             /\ s[Len(s)] = "="

AllAccepted(h, r) ==
    \A j \in 1..Len(requests[r]) :
        image_transform(h, requests[r][j]).raised = "none"

\* C1: preprocess of a request whose instances are all valid returns a mapping
\* with the single key 'instances', holding as many instances as the request,
\* the j-th being the j-th instance of the request, transformed.
C1_PreprocessOneToOneInOrder ==
    \A r \in Requests :
        (pre[r].status # "idle" /\ AllAccepted(pre[r].before, r)) =>
            /\ pre[r].status = "returned"
            /\ DOMAIN pre[r].ret = {"instances"}
            /\ Len(pre[r].ret.instances) = Len(requests[r])
            /\ \A j \in 1..Len(requests[r]) :
                  LET i == requests[r][j] IN
                  /\ pre[r].ret.instances[j] = i
                  /\ heap[i] = image_transform(pre[r].before, i).heap[i]
                  /\ IsNumericArray(heap[i]["data"])

C1_Witness ==
    \E r \in Requests :
        /\ pre[r].status = "returned"
        /\ Len(requests[r]) = 2
        /\ pre[r].before[requests[r][1]]["data"] = PyStr(ValidData)
        /\ pre[r].before[requests[r][2]]["data"] = PyStr(ValidData2)
        /\ heap[requests[r][1]]["data"] # heap[requests[r][2]]["data"]

\* the 'data' string s is malformed base64 or encodes bytes that are no image
BadPayload(s) ==
    \/ ~WellFormedB64(s)
    \/ ImageOpen(b64decode(PyStr(s)).bytes).raised # "none"

IsDataChar(ch) == B64Index(ch) < 64

\* the number of alphabet characters of s before position i
DataBefore(s, i) == Cardinality({k \in 1..(i - 1) : IsDataChar(s[k])})

\* the number of pad characters of s since the last alphabet character, up
\* to position i
PadsUpTo(s, i) ==
    Cardinality({k \in 1..i : s[k] = "=" /\ \A m \in k..i : ~IsDataChar(s[m])})

\* non-validating base64 decoding accepts s: with the characters outside the
\* alphabet discarded, padding completes a group of two or three data
\* characters, or the data characters fill whole groups of four
NonStrictAccepts(s) ==
    \/ \E i \in 1..Len(s) :
          /\ s[i] = "="
          /\ DataBefore(s, i) % 4 >= 2
          /\ (DataBefore(s, i) % 4) + PadsUpTo(s, i) >= 4
    \/ DataBefore(s, Len(s) + 1) % 4 = 0

\* non-validating decoding rejects the 'data' string s, or the bytes it
\* decodes to are no image
Rejected(s) ==
    \/ ~NonStrictAccepts(s)
    \/ ImageOpen(b64decode(PyStr(s)).bytes).raised # "none"

AllStrData(h, r) ==
    \A j \in 1..Len(requests[r]) : IsStr(h[requests[r][j]]["data"])

\* C4 as claimed: a request with an instance whose 'data' is malformed base64
\* or no image makes image_transform and preprocess fail with a decode error.
C4_MalformedAlwaysFails ==
    \A r \in Requests :
        (pre[r].status # "idle" /\ AllStrData(pre[r].before, r)) =>
            \A j \in 1..Len(requests[r]) :
                LET i == requests[r][j] IN
                BadPayload(pre[r].before[i]["data"].str) =>
                    /\ image_transform(pre[r].before, i).raised \in DecodeErrors
                    /\ pre[r].status = "raised"
                    /\ pre[r].raised \in DecodeErrors
                    /\ pre[r].ret = None

\* C4 amended: a request with an instance whose 'data' the non-validating
\* base64 decoder or the image parser rejects makes image_transform fail with
\* a decode error, leaving the instance alone, and preprocess fail with a
\* decode error, returning nothing.
C4_RejectedPayloadFails ==
    \A r \in Requests :
        (pre[r].status # "idle" /\ AllStrData(pre[r].before, r)) =>
            \A j \in 1..Len(requests[r]) :
                LET i == requests[r][j] IN
                Rejected(pre[r].before[i]["data"].str) =>
                    /\ image_transform(pre[r].before, i).raised \in DecodeErrors
                    /\ image_transform(pre[r].before, i).heap = pre[r].before
                    /\ pre[r].status = "raised"
                    /\ pre[r].raised \in DecodeErrors
                    /\ pre[r].ret = None

C4_Witness ==
    \E r \in Requests :
        /\ pre[r].status = "raised"
        /\ Len(requests[r]) = 2
        /\ pre[r].before[requests[r][1]]["data"] = PyStr(ValidData)
        /\ pre[r].before[requests[r][2]]["data"] = PyStr(NotImageData)
        /\ pre[r].raised = "UnidentifiedImageError"

\* C8 as claimed: after a preprocess that failed with a decode error, every
\* instance of the request is as it was before the call.
C8_FailedPreprocessLeavesRequest ==
    \A r \in Requests :
        (pre[r].status = "raised" /\ pre[r].raised \in DecodeErrors) =>
            \A i \in Refs(requests, r) : heap[i] = pre[r].before[i]

\* C7: a postprocess call returns the mapping it was given and changes
\* neither the heap, nor the requests, nor the transformer.
C7_PostprocessIdentity ==
    [][post' # post =>
          /\ post'.status = "returned"
          /\ post'.raised = "none"
          /\ post'.ret = post'.arg
          /\ heap' = heap
          /\ requests' = requests
          /\ config' = config
          /\ pre' = pre]_vars

C7_Witness ==
    /\ post.status = "returned"
    /\ post.ret = post.arg
    /\ Len(requests[post.arg]) > 0
    /\ pre[post.arg].status = "returned"

----------------------------------------------------------------------------
(* Claims about explain and about the transformer as a whole *)

\* the explain call on request r got past the check of line 116
Fetched(r) == call[r].fetch # 0

\* the explain call on request r has ended after its await
Ended(r) == Fetched(r) /\ call[r].status \in {"returned", "raised"}

\* the upstream's response to the call's own request has arrived
Answered(r) == Ended(r) /\ fut[call[r].fetch].answers = call[r].fetch

\* C2 as claimed: once the response has arrived, explain returns the parsed
\* body if and only if the status is 200, and for any other status fails with
\* an error carrying the status and the body.
C2_ReturnsIffStatus200 ==
    \A r \in Requests :
        Answered(r) =>
            LET res == fut[call[r].fetch] IN
            /\ res.code = 200 =>
                  /\ call[r].status = "returned"
                  /\ loads(res.body).raised = "none"
                  /\ call[r].ret = loads(res.body).val
            /\ res.code # 200 =>
                  /\ call[r].status = "raised"
                  /\ call[r].raised.code = res.code
                  /\ call[r].raised.body = res.body
                  /\ call[r].ret = None

\* C2 amended: once the response has arrived, explain returns the parsed body
\* if and only if the status is 200 and the body parses as JSON; with status
\* 200 and a body that does not parse it fails with a JSON decode error; for
\* any other status it fails with an error carrying the status and the body.
C2_ReturnsIffStatus200AndJson ==
    \A r \in Requests :
        Answered(r) =>
            LET res == fut[call[r].fetch] IN
            /\ (res.code = 200 /\ loads(res.body).raised = "none") =>
                  /\ call[r].status = "returned"
                  /\ call[r].raised = NoError
                  /\ call[r].ret = loads(res.body).val
            /\ (res.code = 200 /\ loads(res.body).raised # "none") =>
                  /\ call[r].status = "raised"
                  /\ call[r].raised.type = "JSONDecodeError"
                  /\ call[r].ret = None
            /\ res.code # 200 =>
                  /\ call[r].status = "raised"
                  /\ call[r].raised.type \in {"HTTPError", "HTTPClientError"}
                  /\ call[r].raised.code = res.code
                  /\ call[r].raised.body = res.body
                  /\ call[r].ret = None

C2_Witness ==
    \E r1, r2 \in Requests :
        /\ Answered(r1) /\ Answered(r2)
        /\ fut[call[r1].fetch].code = 200
        /\ fut[call[r1].fetch].body = BodyExplanations
        /\ call[r1].ret =
              PyDict([explanations |-> PyList(<<PyNum(1), PyNum(2), PyNum(3)>>)])
        /\ fut[call[r2].fetch].code = 500
        /\ call[r2].raised = Error("HTTPError", 500, BodyServerError)

\* C3: with explainer_host None, every explain call fails with
\* NotImplementedError and no outbound request is ever issued.
C3_NoExplainerHostNotImplemented ==
    config.explainer_host = None =>
        /\ sent = <<>>
        /\ DOMAIN net = {}
        /\ \A r \in Requests :
              /\ call[r].status \in {"idle", "raised"}
              /\ call[r].status = "raised" =>
                    /\ call[r].raised.type = "NotImplementedError"
                    /\ call[r].fetch = 0
                    /\ call[r].ret = None

C3_Witness ==
    /\ config.explainer_host = None
    /\ \A r \in Requests : call[r].status = "raised"
    /\ \E r1, r2 \in Requests : RequestValue(heap, r1) # RequestValue(heap, r2)

\* the outbound requests the explain call on r has issued
IssuedBy(r) == {k \in 1..Len(sent) : sent[k].by = r}

\* C5: an explain call past the host check has issued exactly one POST; it is
\* suspended while that request is unresolved and ends only once it has
\* resolved, by returning, by failing on the response, or by failing with the
\* timeout error once 100 time units have elapsed; it never issues a second.
C5_OneFetchNoRetry ==
    \A r \in Requests :
        /\ ~Fetched(r) => IssuedBy(r) = {}
        /\ Fetched(r) =>
              /\ IssuedBy(r) = {call[r].fetch}
              /\ sent[call[r].fetch].args.method = "POST"
              /\ call[r].status \in {"awaiting", "returned", "raised"}
              /\ fut[call[r].fetch].state = "pending" =>
                    /\ call[r].status = "awaiting"
                    /\ call[r].fetch \in InFlight
              /\ Ended(r) =>
                    /\ call[r].fetch \notin InFlight
                    /\ \/ call[r].status = "returned"
                       \/ Answered(r)
                       \/ /\ call[r].raised.type = "HTTPTimeoutError"
                          /\ fut[call[r].fetch].elapsed >= 100

C5_Witness ==
    \E r1, r2 \in Requests :
        /\ Ended(r1) /\ call[r1].raised.type = "HTTPTimeoutError"
        /\ Ended(r2) /\ call[r2].status = "raised"
        /\ fut[call[r2].fetch].code = 500

\* the instance of request r as it was decoded from JSON
Received(i) ==
    Instance(PyStr(IF ((i - 1) \div MaxInstances) % 2 = 0
                   THEN ValidData ELSE UnpaddedData), None)

\* C6: whatever the interleaving, the explain call on a request awaits the
\* request it issued itself, which carries that request's own body, and ends
\* as explain alone ends on the answer to it; a preprocess call works on the
\* instances of its request as they were received and ends as preprocess
\* alone ends on them.
C6_CallsDoNotInterfere ==
    \A r \in Requests :
        /\ Fetched(r) =>
              LET out == sent[call[r].fetch] IN
              /\ out.by = r
              /\ \/ out.request = RequestValue(heap, r)
                 \/ pre[r].status # "idle"
                      /\ out.request = RequestValue(pre[r].before, r)
              /\ out.args.body = dumps(out.request)
              /\ \A q \in Requests \ {r} : call[q].fetch # call[r].fetch
        /\ Ended(r) =>
              LET res == fut[call[r].fetch] IN
              /\ res.answers = call[r].fetch
              /\ call[r].ret = explain_resume(res).ret
              /\ call[r].raised = explain_resume(res).raised
        /\ \A i \in Refs(requests, r) :
              IF pre[r].status = "idle"
              THEN heap[i] = Received(i)
              ELSE /\ pre[r].before[i] = Received(i)
                   /\ heap[i] = preprocess(pre[r].before, requests[r]).heap[i]
        /\ pre[r].status # "idle" =>
              /\ pre[r].ret = preprocess(pre[r].before, requests[r]).ret
              /\ pre[r].raised = preprocess(pre[r].before, requests[r]).raised

C6_Witness ==
    \E r1, r2 \in Requests :
        /\ r1 < r2
        /\ call[r1].fetch < call[r2].fetch
        /\ Ended(r1) /\ Ended(r2)
        /\ call[r1].status = "raised" /\ call[r2].status = "returned"
        /\ pre[r1].status = "returned" /\ pre[r2].status = "raised"

\* C10: the configuration stays what the constructor set, and every outbound
\* request is a POST to http://{host}/v1/models/{name}:explain built from the
\* constructor's arguments, with timeout 100 and a body that is the JSON text
\* of the request.
C10_ConfigFixedAndRequestShape ==
    /\ config = [name |-> ctor.name, predictor_host |-> ctor.predictor_host,
                 explainer_host |-> ctor.predictor_host, timeout |-> 100]
    /\ \A k \in 1..Len(sent) :
          /\ sent[k].args.method = "POST"
          /\ sent[k].args.url =
                <<"http://", ctor.predictor_host, "/v1/models/", ctor.name, ":explain">>
          /\ sent[k].args.request_timeout = 100
          /\ loads(sent[k].args.body) = [raised |-> "none", val |-> sent[k].request]

C10_Witness ==
    \E r \in Requests :
        /\ post.status = "returned"
        /\ pre[r].status = "returned"
        /\ call[r].status = "returned"
        /\ sent[call[r].fetch].request = RequestValue(heap, r)
        /\ IsNumericArray(heap[requests[r][1]]["data"])

====
